---- MODULE Spec2Model ----
(***************************************************************************)
(* Model of contentful-image (src/src/index.ts): the source resolver       *)
(* getContentfulImageSrcUrl, the query builder getContentfulImageQuery and *)
(* the entry point contentfulImage.                                        *)
(*                                                                         *)
(* A JavaScript string is a sequence of one-character strings, so that     *)
(* startsWith, includes, split, replace, join and concatenation are        *)
(* computed character by character.  A call that throws is the result      *)
(* [ok |-> FALSE, val |-> <<>>]; a call that returns s is                  *)
(* [ok |-> TRUE, val |-> s].                                               *)
(***************************************************************************)
EXTENDS Integers, Sequences, FiniteSets

VARIABLES op, src, options, result

vars == <<op, src, options, result>>

-----------------------------------------------------------------------------
(* Bounds of the input space.                                              *)

\* longest raw URL given as a string or in a single-shape source object
MaxUrlLen == 4
\* longest URL carried by an object that has several of fields/file/url
MaxObjUrlLen == 1
\* longest format / backgroundColor string outside the typed enumerations
MaxValLen == 3
\* numbers are sig * 10^exp, -MaxNegSig <= sig <= MaxSig, -1 <= exp <= MaxExp
MaxNegSig == 2
MaxSig == 12
MaxExp == 21
\* most entries of an option set built from the sample values
MaxOptions == 2
\* how many sample values per option name take part in such option sets
MaxSample == 2

-----------------------------------------------------------------------------
(* JavaScript built-ins used by the code.                                  *)

Min(a, b) == IF a < b THEN a ELSE b
Max(a, b) == IF a > b THEN a ELSE b

\* all strings over alphabet of length at most n
RECURSIVE StringsUpTo(_, _)
StringsUpTo(alphabet, n) ==
  IF n = 0 THEN {<<>>}
  ELSE LET shorter == StringsUpTo(alphabet, n - 1)
       IN  shorter \cup {Append(s, c) : s \in shorter, c \in alphabet}

\* String.prototype.startsWith
StartsWith(s, prefix) ==
  /\ Len(s) >= Len(prefix)
  /\ SubSeq(s, 1, Len(prefix)) = prefix

\* String.prototype.includes, for a one-character needle
Includes(s, c) == \E i \in 1..Len(s) : s[i] = c

\* String.prototype.indexOf, 1-based; 0 when c does not occur
IndexOf(s, c) ==
  IF Includes(s, c)
  THEN CHOOSE i \in 1..Len(s) : s[i] = c /\ \A j \in 1..(i - 1) : s[j] # c
  ELSE 0

\* String.prototype.split on a one-character separator
RECURSIVE Split(_, _)
Split(s, c) ==
  IF ~Includes(s, c) THEN <<s>>
  ELSE LET i == IndexOf(s, c)
       IN  <<SubSeq(s, 1, i - 1)>> \o Split(SubSeq(s, i + 1, Len(s)), c)

\* Array.prototype.join
RECURSIVE Join(_, _)
Join(parts, sep) ==
  IF Len(parts) = 0 THEN <<>>
  ELSE IF Len(parts) = 1 THEN parts[1]
  ELSE parts[1] \o sep \o Join(Tail(parts), sep)

\* Array.prototype.flat, one level
RECURSIVE Flat(_)
Flat(lists) ==
  IF Len(lists) = 0 THEN <<>> ELSE lists[1] \o Flat(Tail(lists))

\* String.prototype.replace(c, ""): a string pattern replaces its first
\* occurrence only
ReplaceFirstWithEmpty(s, c) ==
  LET i == IndexOf(s, c)
  IN  IF i = 0 THEN s ELSE SubSeq(s, 1, i - 1) \o SubSeq(s, i + 1, Len(s))

Returned(s) == [ok |-> TRUE, val |-> s]
TypeError == [ok |-> FALSE, val |-> <<>>]

-----------------------------------------------------------------------------
(* Source resolver.                                                        *)

\* the object with no own property
EmptyObj == [p \in {} |-> <<>>]

\* ContentfulImageSource values: a string, or an object
StringSrc(u) == [type |-> "string", str |-> u, obj |-> EmptyObj]
ObjectSrc(o) == [type |-> "object", str |-> <<>>, obj |-> o]

\* the "in" operator
HasProp(o, p) == p \in DOMAIN o

\* o.p.url, where reading a property of undefined throws and an absent url
\* reads as undefined
UrlOf(o) == IF HasProp(o, "url") THEN Returned(o.url) ELSE TypeError

\* faulty variant: the file shape is not recognised and falls through to src.url
RawUrlWithoutFileShape(s) ==
  IF s.type = "string" THEN Returned(s.str)
  ELSE IF HasProp(s.obj, "fields")
       THEN IF HasProp(s.obj.fields, "file")
            THEN UrlOf(s.obj.fields.file)
            ELSE TypeError
  ELSE UrlOf(s.obj)

\* faulty variant: the file property is looked at before the fields property
RawUrlFileFirst(s) ==
  IF s.type = "string" THEN Returned(s.str)
  ELSE IF HasProp(s.obj, "file") THEN UrlOf(s.obj.file)
  ELSE IF HasProp(s.obj, "fields")
       THEN IF HasProp(s.obj.fields, "file")
            THEN UrlOf(s.obj.fields.file)
            ELSE TypeError
  ELSE UrlOf(s.obj)

\* let url = typeof src === "string" ? src : "fields" in src ? ...
RawUrl(s) ==
  IF s.type = "string" THEN Returned(s.str)
  ELSE IF HasProp(s.obj, "fields")
       THEN IF HasProp(s.obj.fields, "file")
            THEN UrlOf(s.obj.fields.file)
            ELSE TypeError
  ELSE IF HasProp(s.obj, "file") THEN UrlOf(s.obj.file)
  ELSE UrlOf(s.obj)

HttpsPrefix == <<"h", "t", "t", "p", "s", ":">>

\* faulty variant: one leading "/" is enough for the prefix
PrependHttpsOnSingleSlash(url) ==
  IF StartsWith(url, <<"/">>) THEN HttpsPrefix \o url ELSE url

\* if (url.startsWith("//")) url = "https:" + url
PrependHttps(url) ==
  IF StartsWith(url, <<"/", "/">>) THEN HttpsPrefix \o url ELSE url

\* faulty variant: the URL is cut at its last "?" instead of its first
RemoveQueryFromLast(url) ==
  IF Includes(url, "?")
  THEN LET parts == Split(url, "?")
       IN  Join(SubSeq(parts, 1, Len(parts) - 1), <<"?">>)
  ELSE url

\* if (url.includes("?")) url = url.split("?")[0]
RemoveQuery(url) ==
  IF Includes(url, "?") THEN Split(url, "?")[1] ELSE url

\* faulty variant: the query is removed but "https:" is never prepended
getContentfulImageSrcUrlWithoutPrepend(s) ==
  LET raw == RawUrl(s)
  IN  IF ~raw.ok THEN TypeError
      ELSE Returned(RemoveQuery(raw.val))

getContentfulImageSrcUrl(s) ==
  LET raw == RawUrl(s)
  IN  IF ~raw.ok THEN TypeError
      ELSE Returned(RemoveQuery(PrependHttps(raw.val)))

-----------------------------------------------------------------------------
(* Option values and their conversion to strings.                          *)

\* an option value: the number sig * 10^exp (sig not a multiple of 10 once
\* normalised), or a string
NumVal(sig, exp) == [type |-> "number", str |-> <<>>, sig |-> sig, exp |-> exp]
StrVal(s) == [type |-> "string", str |-> s, sig |-> 0, exp |-> 0]

Digit == <<"0", "1", "2", "3", "4", "5", "6", "7", "8", "9">>

\* the decimal digits of a natural number
RECURSIVE NatDigits(_)
NatDigits(n) ==
  IF n < 10 THEN <<Digit[n + 1]>>
  ELSE Append(NatDigits(n \div 10), Digit[(n % 10) + 1])

Zeros(n) == [i \in 1..n |-> "0"]

\* the shortest digit string of sig * 10^exp: trailing zeros go to the exponent
RECURSIVE Normalised(_, _)
Normalised(sig, exp) ==
  IF sig # 0 /\ sig % 10 = 0 THEN Normalised(sig \div 10, exp + 1)
  ELSE [sig |-> sig, exp |-> exp]

\* Number.prototype.toString(): with n digits and the decimal point after
\* the k-th, plain digits for n <= k <= 21, a decimal point for 0 < k < n,
\* a leading "0." for -6 < k <= 0, and exponent notation otherwise
ExpNotationFrom == 21
NumberToString(sig, exp) ==
  LET abs  == IF sig < 0 THEN 0 - sig ELSE sig
      norm == Normalised(abs, exp)
      ds   == NatDigits(norm.sig)
      n    == Len(ds)
      k    == n + norm.exp
      e    == k - 1
      sign == IF sig < 0 THEN <<"-">> ELSE <<>>
      expo == (IF e < 0 THEN <<"e", "-">> \o NatDigits(0 - e)
               ELSE <<"e", "+">> \o NatDigits(e))
  IN  IF sig = 0 THEN <<"0">>
      ELSE sign \o
           (IF n <= k /\ k <= ExpNotationFrom THEN ds \o Zeros(k - n)
            ELSE IF 0 < k /\ k <= ExpNotationFrom
                 THEN SubSeq(ds, 1, k) \o <<".">> \o SubSeq(ds, k + 1, n)
            ELSE IF -6 < k /\ k <= 0 THEN <<"0", ".">> \o Zeros(0 - k) \o ds
            ELSE IF n = 1 THEN ds \o expo
            ELSE <<ds[1], ".">> \o Tail(ds) \o expo)

\* value.toString()
ValueToString(v) ==
  IF v.type = "number" THEN NumberToString(v.sig, v.exp) ELSE v.str

IsDigit(c) == \E d \in 1..10 : Digit[d] = c
DigitValue(c) == (CHOOSE d \in 1..10 : Digit[d] = c) - 1

\* the value of a digit string; values from ParseIntCap on are kept as
\* ParseIntCap (the only use of the result is a comparison with 1 and 100)
ParseIntCap == 1000000
RECURSIVE DigitsValue(_, _)
DigitsValue(s, acc) ==
  IF Len(s) = 0 \/ ~IsDigit(s[1]) THEN acc
  ELSE DigitsValue(Tail(s), Min(ParseIntCap, acc * 10 + DigitValue(s[1])))

\* Number.parseInt(value, 10): an optional sign, then the longest run of
\* digits; NaN when there is no digit
ParseInt(s) ==
  LET neg  == Len(s) > 0 /\ s[1] = "-"
      body == IF Len(s) > 0 /\ s[1] \in {"-", "+"} THEN Tail(s) ELSE s
  IN  IF Len(body) = 0 \/ ~IsDigit(body[1]) THEN [nan |-> TRUE, val |-> 0]
      ELSE [nan |-> FALSE,
            val |-> IF neg THEN 0 - DigitsValue(body, 0)
                    ELSE DigitsValue(body, 0)]

-----------------------------------------------------------------------------
(* Query Key Table and Transformer Table.                                  *)

OptionNames ==
  {"backgroundColor", "quality", "radius", "focusArea", "fit", "height",
   "width", "format"}

\* optionQueryKeys[key]
optionQueryKeys(key) ==
  CASE key = "backgroundColor" -> << <<"b", "g">> >>
    [] key = "quality"         -> << <<"q">> >>
    [] key = "radius"          -> << <<"r">> >>
    [] key = "focusArea"       -> << <<"f">> >>
    [] key = "fit"             -> << <<"f", "i", "t">> >>
    [] key = "height"          -> << <<"h">> >>
    [] key = "width"           -> << <<"w">> >>
    [] key = "format"          -> << <<"f", "m">>, <<"f", "l">> >>

\* backgroundColor: (value) => "rgb:" + value.replace("#", "")
transformBackgroundColor(value) ==
  <<"r", "g", "b", ":">> \o ReplaceFirstWithEmpty(value, "#")

QualityMin == 1
QualityMax == 100

\* quality: (value) => Math.round(Math.min(100, Math.max(1,
\*   Number.parseInt(value, 10)))).toString()
transformQuality(value) ==
  LET parsed == ParseInt(value)
  IN  IF parsed.nan THEN <<"N", "a", "N">>
      ELSE NatDigits(Min(QualityMax, Max(QualityMin, parsed.val)))

\* transformer ? transformer(value.toString()) : value.toString()
Transformed(key, value) ==
  IF key = "backgroundColor" THEN transformBackgroundColor(ValueToString(value))
  ELSE IF key = "quality" THEN transformQuality(ValueToString(value))
  ELSE ValueToString(value)

-----------------------------------------------------------------------------
(* Query builder.                                                          *)

\* faulty variant: only the name is tested, so a missing value prints as "undefined"
\* and an empty one as nothing
PairAtNameOnly(queryKeys, values, i) ==
  IF Len(queryKeys[i]) = 0 THEN <<>>
  ELSE queryKeys[i] \o <<"=">> \o
       (IF i > Len(values)
        THEN <<"u", "n", "d", "e", "f", "i", "n", "e", "d">>
        ELSE values[i])

\* queryKeys.map((name, i) => !name || !values[i] ? "" : name + "=" + values[i])
PairAt(queryKeys, values, i) ==
  IF Len(queryKeys[i]) = 0 \/ i > Len(values) \/ Len(values[i]) = 0
  THEN <<>>
  ELSE queryKeys[i] \o <<"=">> \o values[i]

\* .filter((_) => !!_)
RECURSIVE FilterNonEmpty(_)
FilterNonEmpty(strs) ==
  IF Len(strs) = 0 THEN <<>>
  ELSE IF Len(strs[1]) = 0 THEN FilterNonEmpty(Tail(strs))
  ELSE <<strs[1]>> \o FilterNonEmpty(Tail(strs))

\* the pairs of one recognised entry
EntryPairs(entry) ==
  LET queryKeys == optionQueryKeys(entry.key)
      values    == Split(Transformed(entry.key, entry.value), "/")
  IN  FilterNonEmpty([i \in 1..Len(queryKeys) |-> PairAt(queryKeys, values, i)])

\* optionQueryKeys[key] is undefined for a key outside the table, and
\* queryKeys.map then throws
EntryThrows(entry) == entry.key \notin OptionNames

\* faulty variant: each entry's pairs are joined first and the entries then, without
\* flat(), so an entry with no pair leaves its separator behind
getContentfulImageQueryJoinedPerEntry(opts) ==
  IF \E i \in 1..Len(opts) : EntryThrows(opts[i]) THEN TypeError
  ELSE Returned(Join([i \in 1..Len(opts) |-> Join(EntryPairs(opts[i]), <<"&">>)],
                     <<"&">>))

getContentfulImageQuery(opts) ==
  IF \E i \in 1..Len(opts) : EntryThrows(opts[i]) THEN TypeError
  ELSE Returned(Join(Flat([i \in 1..Len(opts) |-> EntryPairs(opts[i])]),
                     <<"&">>))

-----------------------------------------------------------------------------
(* Entry point.                                                            *)

\* faulty variant: the "?" is appended whether or not a query was built
contentfulImageAlwaysAppends(s, opts) ==
  LET url   == getContentfulImageSrcUrl(s)
      query == getContentfulImageQuery(opts)
  IN  IF ~url.ok \/ ~query.ok THEN TypeError
      ELSE Returned(url.val \o <<"?">> \o query.val)

\* return url + (query ? `?${query}` : "")
contentfulImage(s, opts) ==
  LET url   == getContentfulImageSrcUrl(s)
      query == getContentfulImageQuery(opts)
  IN  IF ~url.ok \/ ~query.ok THEN TypeError
      ELSE Returned(url.val \o
                    (IF Len(query.val) > 0 THEN <<"?">> \o query.val ELSE <<>>))

-----------------------------------------------------------------------------
(* The inputs of the calls.                                                *)

UrlAlphabet == {"/", "?", "a"}
Urls == StringsUpTo(UrlAlphabet, MaxUrlLen)

\* the four accepted shapes of a source carrying the URL u
UrlShape(u) == ObjectSrc([url |-> u])
FileShape(u) == ObjectSrc([file |-> [url |-> u]])
FieldsShape(u) == ObjectSrc([fields |-> [file |-> [url |-> u]]])
ShapesOf(u) == {StringSrc(u), UrlShape(u), FileShape(u), FieldsShape(u)}

\* objects with any of the properties fields, file and url, whose nested
\* objects may lack file or url
ObjAlphabet == {"/", "a"}
ObjUrls == StringsUpTo(ObjAlphabet, MaxObjUrlLen)
FileObjs == {EmptyObj} \cup {[url |-> u] : u \in ObjUrls}
FieldsObjs == {EmptyObj} \cup {[file |-> f] : f \in FileObjs}
MakeObj(props, fieldsObj, fileObj, u) ==
  [p \in props |-> CASE p = "fields" -> fieldsObj
                     [] p = "file"   -> fileObj
                     [] p = "url"    -> u]
ObjectSources ==
  {ObjectSrc(MakeObj(props, fo, fi, u)) :
     props \in SUBSET {"fields", "file", "url"},
     fo \in FieldsObjs, fi \in FileObjs, u \in ObjUrls}

Sources == (UNION {ShapesOf(u) : u \in Urls}) \cup ObjectSources

\* the sources of the README's tests: "https://a.b.c/" and "//a.b.c/img?a=b"
SampleSources ==
  { StringSrc(<<"h", "t", "t", "p", "s", ":", "/", "/", "a", ".", "b", ".",
                "c", "/">>),
    StringSrc(<<"/", "/", "a", ".", "b", ".", "c", "/", "i", "m", "g", "?",
                "a", "=", "b">>) }

\* protocol-relative URLs with a query that itself holds "//":
\* "//a?//b" and "//?"
ExampleSources ==
  { StringSrc(<<"/", "/", "a", "?", "/", "/", "b">>),
    StringSrc(<<"/", "/", "?">>) }

\* the sources the resolver is called with
ResolveSources == Sources \cup SampleSources \cup ExampleSources

FormatTyped ==
  { <<"j", "p", "g">>,
    <<"p", "n", "g">>,
    <<"w", "e", "b", "p">>,
    <<"g", "i", "f">>,
    <<"a", "v", "i", "f">>,
    <<"j", "p", "g", "/", "p", "r", "o", "g", "r", "e", "s", "s", "i", "v", "e">>,
    <<"p", "n", "g", "/", "p", "n", "g", "8">> }

FitTyped ==
  { <<"p", "a", "d">>,
    <<"f", "i", "l", "l">>,
    <<"s", "c", "a", "l", "e">>,
    <<"c", "r", "o", "p">>,
    <<"t", "h", "u", "m", "b">> }

FocusAreaTyped ==
  { <<"c", "e", "n", "t", "e", "r">>,
    <<"t", "o", "p">>,
    <<"l", "e", "f", "t">>,
    <<"r", "i", "g", "h", "t">>,
    <<"b", "o", "t", "t", "o", "m">>,
    <<"t", "o", "p", "_", "r", "i", "g", "h", "t">>,
    <<"b", "o", "t", "t", "o", "m", "_", "r", "i", "g", "h", "t">>,
    <<"t", "o", "p", "_", "l", "e", "f", "t">>,
    <<"b", "o", "t", "t", "o", "m", "_", "l", "e", "f", "t">>,
    <<"f", "a", "c", "e">>,
    <<"f", "a", "c", "e", "s">> }

Numbers ==
  {NumVal(sig, exp) : sig \in (0 - MaxNegSig)..MaxSig, exp \in (0 - 1)..MaxExp}

\* format strings at run time are any strings; "/" is the fan-out separator
FormatAlphabet == {"a", "/"}
ColourAlphabet == {"#", "a", "/"}

\* the values an option can hold
ValuesOf(key) ==
  CASE key = "format" ->
         {StrVal(s) : s \in FormatTyped \cup StringsUpTo(FormatAlphabet, MaxValLen)}
    [] key = "fit" -> {StrVal(s) : s \in FitTyped}
    [] key = "focusArea" -> {StrVal(s) : s \in FocusAreaTyped}
    [] key = "radius" -> Numbers \cup {StrVal(<<"m", "a", "x">>)}
    [] key = "backgroundColor" ->
         {StrVal(s) : s \in StringsUpTo(ColourAlphabet, MaxValLen)}
    [] key \in {"width", "height", "quality"} -> Numbers

Entry(key, value) == [key |-> key, value |-> value]

\* option sets with one entry
SingleOptionSets ==
  UNION {{<<Entry(key, v)>> : v \in ValuesOf(key)} : key \in OptionNames}

\* an option name that is not in the Query Key Table
UnknownKey == "blur"
AllKeys == OptionNames \cup {UnknownKey}

\* sample values of each option, most of them from the README's tests
SampleSeq(key) ==
  CASE key = "format" ->
         << StrVal(<<"p", "n", "g", "/", "p", "n", "g", "8">>),
            StrVal(<<"/">>),
            StrVal(<<"j", "p", "g">>) >>
    [] key = "width" -> <<NumVal(123, 0), NumVal(456, 0), NumVal(1, 0)>>
    [] key = "height" -> <<NumVal(456, 0), NumVal(123, 0), NumVal(1, 0)>>
    [] key = "fit" ->
         << StrVal(<<"c", "r", "o", "p">>), StrVal(<<"p", "a", "d">>),
            StrVal(<<"f", "i", "l", "l">>) >>
    [] key = "focusArea" ->
         << StrVal(<<"t", "o", "p", "_", "r", "i", "g", "h", "t">>),
            StrVal(<<"f", "a", "c", "e", "s">>), StrVal(<<"t", "o", "p">>) >>
    [] key = "radius" ->
         <<StrVal(<<"m", "a", "x">>), NumVal(1234, 0), NumVal(0, 0)>>
    [] key = "quality" -> <<NumVal(10000, 0), NumVal(511, 0 - 1), NumVal(0, 0)>>
    [] key = "backgroundColor" ->
         << StrVal(<<"#", "1", "2", "3", "1", "2", "3">>),
            StrVal(<<"a", "b", "c", "a", "b", "c">>), StrVal(<<>>) >>
    [] key = UnknownKey -> <<NumVal(5, 0)>>

Sample(key) ==
  {SampleSeq(key)[i] : i \in 1..Min(MaxSample, Len(SampleSeq(key)))}

SampleEntries == UNION {{Entry(key, v) : v \in Sample(key)} : key \in AllKeys}

KeysOf(opts) == {opts[i].key : i \in 1..Len(opts)}

\* option sets of at most n sample entries, in every insertion order
RECURSIVE SampleOptionSetsUpTo(_)
SampleOptionSetsUpTo(n) ==
  IF n = 0 THEN {<<>>}
  ELSE LET shorter == SampleOptionSetsUpTo(n - 1)
       IN  shorter \cup
           {Append(q[1], q[2]) :
              q \in {r \in shorter \X SampleEntries : r[2].key \notin KeysOf(r[1])}}

SampleOptionSets == SampleOptionSetsUpTo(MaxOptions)

OptionSets == SingleOptionSets \cup SampleOptionSets

\* the (source, options) arguments of contentfulImage
ComposeInputs ==
  (Sources \X SampleOptionSetsUpTo(1)) \cup (SampleSources \X OptionSets)

-----------------------------------------------------------------------------
(* The calls.  Every call starts from the idle state with fresh arguments  *)
(* and nothing is retained after it returns.                               *)

NoSource == StringSrc(<<>>)
NoResult == Returned(<<>>)

Init ==
  /\ op = "idle"
  /\ src = NoSource
  /\ options = <<>>
  /\ result = NoResult

CallGetContentfulImageSrcUrl ==
  /\ op = "idle"
  /\ \E s \in ResolveSources :
       /\ src' = s
       /\ result' = getContentfulImageSrcUrl(s)
  /\ options' = <<>>
  /\ op' = "getContentfulImageSrcUrl"

CallGetContentfulImageQuery ==
  /\ op = "idle"
  /\ \E opts \in OptionSets :
       /\ options' = opts
       /\ result' = getContentfulImageQuery(opts)
  /\ src' = NoSource
  /\ op' = "getContentfulImageQuery"

CallContentfulImage ==
  /\ op = "idle"
  /\ \E in \in ComposeInputs :
       /\ src' = in[1]
       /\ options' = in[2]
       /\ result' = contentfulImage(in[1], in[2])
  /\ op' = "contentfulImage"

Return ==
  /\ op # "idle"
  /\ op' = "idle"
  /\ src' = NoSource
  /\ options' = <<>>
  /\ result' = NoResult

Next ==
  \/ CallGetContentfulImageSrcUrl
  \/ CallGetContentfulImageQuery
  \/ CallContentfulImage
  \/ Return

Spec == Init /\ [][Next]_vars

-----------------------------------------------------------------------------
(* Properties.                                                             *)

IsPrefix(p, s) == Len(p) <= Len(s) /\ SubSeq(s, 1, Len(p)) = p

\* the part of s before the first occurrence of c (s contains c)
BeforeFirst(s, c) ==
  LET first == CHOOSE i \in 1..Len(s) : s[i] = c /\ \A j \in 1..(i - 1) : s[j] # c
  IN  [i \in 1..(first - 1) |-> s[i]]

Resolved == op = "getContentfulImageSrcUrl"
Built == op = "getContentfulImageQuery"
Composed == op = "contentfulImage"

\* C1: contentfulImage returns the resolved URL itself when the built query
\* is the empty string, and the resolved URL, "?" and the query otherwise;
\* with an empty option set the result is the resolved URL and has no "?".
C1_ComposeAppendsQueryOnlyIfNonEmpty ==
  (Composed /\ result.ok) =>
    LET url   == getContentfulImageSrcUrl(src).val
        query == getContentfulImageQuery(options).val
    IN  /\ query = <<>> => result.val = url
        /\ query # <<>> => result.val = url \o <<"?">> \o query
        /\ options = <<>> => (result.val = url /\ ~Includes(result.val, "?"))

\* a call with one option whose value yields no pair: the query is empty and
\* the URL comes back without "?"
C1_Witness ==
  /\ Composed
  /\ result.ok
  /\ Len(options) = 1
  /\ getContentfulImageQuery(options).val = <<>>
  /\ Len(result.val) > 0
  /\ result.val[Len(result.val)] # "?"

\* C2: for a string source u + "?" + rest, u without "?", the resolver
\* returns what it returns for u alone, whatever rest holds.
C2_ResolveStripsFromFirstQuestionMark ==
  (Resolved /\ src.type = "string" /\ Includes(src.str, "?")) =>
    /\ result = getContentfulImageSrcUrl(StringSrc(BeforeFirst(src.str, "?")))
    /\ ~Includes(result.val, "?")

\* a protocol-relative URL whose query holds a second "?"
C2_Witness ==
  /\ Resolved
  /\ src.type = "string"
  /\ StartsWith(src.str, <<"/", "/">>)
  /\ \E i, j \in 1..Len(src.str) : i < j /\ src.str[i] = "?" /\ src.str[j] = "?"
  /\ result.val = HttpsPrefix \o <<"/", "/">>

\* C3: "https:" is prepended iff the raw URL starts with "//": then the
\* result starts with "https://" and is "https:" followed by a prefix of the
\* raw URL; otherwise the result is a prefix of the raw URL.
C3_HttpsPrependedIffProtocolRelative ==
  (Resolved /\ src.type = "string") =>
    IF StartsWith(src.str, <<"/", "/">>)
    THEN /\ StartsWith(result.val, HttpsPrefix \o <<"/", "/">>)
         /\ IsPrefix(SubSeq(result.val, Len(HttpsPrefix) + 1, Len(result.val)),
                     src.str)
    ELSE IsPrefix(result.val, src.str)

\* a URL that starts with one "/" only: nothing is prepended
C3_Witness ==
  /\ Resolved
  /\ src.type = "string"
  /\ StartsWith(src.str, <<"/", "a">>)
  /\ Includes(src.str, "?")
  /\ result.val = <<"/", "a">>

\* the URL carried by a source of one of the four shapes
IsShape(s) == \E u \in Urls : s \in ShapesOf(u)
ShapeUrl(s) == CHOOSE u \in Urls : s \in ShapesOf(u)

\* C4: the four shapes of a URL resolve to the same string, and
\* contentfulImage returns the same URL for them under the same options.
C4_ShapeInvariance ==
  /\ (Resolved /\ IsShape(src)) =>
       result = getContentfulImageSrcUrl(StringSrc(ShapeUrl(src)))
  /\ (Composed /\ IsShape(src)) =>
       result = contentfulImage(StringSrc(ShapeUrl(src)), options)

\* the fields shape of a protocol-relative URL with a query, composed with
\* one option
C4_Witness ==
  /\ Composed
  /\ \E u \in Urls : /\ src = FieldsShape(u)
                     /\ StartsWith(u, <<"/", "/">>)
                     /\ Includes(u, "?")
  /\ Len(options) = 1
  /\ result.ok
  /\ Includes(result.val, "?")

\* the entry of a call of the query builder with a single option
OnlyEntry == options[1]
BuiltOne(key) == Built /\ Len(options) = 1 /\ OnlyEntry.key = key

\* the text after the first "=" of a pair
PairValue(pair) ==
  LET eq == CHOOSE i \in 1..Len(pair) : pair[i] = "=" /\ \A j \in 1..(i - 1) : pair[j] # "="
  IN  SubSeq(pair, eq + 1, Len(pair))

\* C5: the bg value emitted for a colour x holds no "#" at all, also when x
\* holds two or more, and is "rgb:" + x when x has no "#" (x without "/",
\* which would cut the value at the fan-out).
C5_BackgroundColorRemovesEveryHash ==
  (BuiltOne("backgroundColor") /\ ~Includes(OnlyEntry.value.str, "/")) =>
    /\ result.ok
    /\ StartsWith(result.val, <<"b", "g", "=">>)
    /\ ~Includes(PairValue(result.val), "#")
    /\ ~Includes(OnlyEntry.value.str, "#") =>
         PairValue(result.val) = <<"r", "g", "b", ":">> \o OnlyEntry.value.str

\* whether the number sig * 10^exp is an integer
IsInteger(v) == v.type = "number" /\ Normalised(v.sig, v.exp).exp >= 0

\* 10^n
RECURSIVE Pow10(_)
Pow10(n) == IF n = 0 THEN 1 ELSE 10 * Pow10(n - 1)

\* min(100, max(1, x)) of the integer x = sig * 10^exp, without computing
\* a power of ten above 100
Clamped(v) ==
  LET n == Normalised(v.sig, v.exp)
  IN  IF n.sig <= 0 THEN 1
      ELSE IF n.exp >= 3 THEN 100
      ELSE Min(100, Max(1, n.sig * Pow10(n.exp)))

\* C6: for every integer quality x the emitted q value is the decimal of
\* min(100, max(1, x)); it lies in [1, 100], and the transformer applied to
\* its own output returns that output.
C6_QualityClampsEveryInteger ==
  (BuiltOne("quality") /\ IsInteger(OnlyEntry.value)) =>
    /\ result.ok
    /\ result.val = <<"q", "=">> \o NatDigits(Clamped(OnlyEntry.value))
    /\ transformQuality(PairValue(result.val)) = PairValue(result.val)

\* the pairs of a query string
Pieces(query) == IF query = <<>> THEN <<>> ELSE Split(query, "&")

\* the text before the first "=" of a pair
PairKey(pair) ==
  LET eq == CHOOSE i \in 1..Len(pair) : pair[i] = "=" /\ \A j \in 1..(i - 1) : pair[j] # "="
  IN  SubSeq(pair, 1, eq - 1)

\* the n-th smallest element of a set of numbers
NthOf(set, n) == CHOOSE i \in set : Cardinality({j \in set : j < i}) = n - 1

AllRecognised(opts) == \A i \in 1..Len(opts) : opts[i].key \in OptionNames

\* C7: the i-th wire-parameter name is paired with the i-th sub-value of
\* the option's value split on "/", and a pair is emitted iff both exist
\* and are non-empty: "a/b" gives fm=a&fl=b, a format without "/" gives
\* fm=<value> only, and no pair has an empty key or value.
C7_FanOutByIndex ==
  (Built /\ Len(options) = 1 /\ AllRecognised(options)) =>
    LET names  == optionQueryKeys(OnlyEntry.key)
        values == Split(Transformed(OnlyEntry.key, OnlyEntry.value), "/")
        kept   == {i \in 1..Len(names) :
                     names[i] # <<>> /\ i <= Len(values) /\ values[i] # <<>>}
        pieces == Pieces(result.val)
        text   == OnlyEntry.value.str
    IN  /\ result.ok
        /\ Len(pieces) = Cardinality(kept)
        /\ \A n \in 1..Len(pieces) :
             /\ pieces[n] = names[NthOf(kept, n)] \o <<"=">> \o values[NthOf(kept, n)]
             /\ Includes(pieces[n], "=")
             /\ PairKey(pieces[n]) # <<>>
             /\ PairValue(pieces[n]) # <<>>
        /\ (OnlyEntry.key = "format" /\ text # <<>> /\ ~Includes(text, "/")) =>
             result.val = <<"f", "m", "=">> \o text
        /\ (OnlyEntry.key = "format" /\ Len(values) = 2
              /\ values[1] # <<>> /\ values[2] # <<>>) =>
             result.val = <<"f", "m", "=">> \o values[1]
                            \o <<"&", "f", "l", "=">> \o values[2]

\* the format "/a": the first sub-value is empty, so fm is dropped and the
\* second name still gets the second sub-value
C7_Witness ==
  /\ BuiltOne("format")
  /\ OnlyEntry.value.str = <<"/", "a">>
  /\ result.val = <<"f", "l", "=", "a">>

\* the query of an option set, entry by entry
RECURSIVE ExpectedQuery(_)
ExpectedQuery(opts) ==
  IF Len(opts) = 0 THEN <<>>
  ELSE LET head == Join(EntryPairs(opts[1]), <<"&">>)
           rest == ExpectedQuery(Tail(opts))
       IN  IF head = <<>> THEN rest
           ELSE IF rest = <<>> THEN head
           ELSE head \o <<"&">> \o rest

\* the wire-parameter names of the options present in an option set
WireNamesOf(opts) ==
  UNION {{optionQueryKeys(k)[i] : i \in 1..Len(optionQueryKeys(k))} :
           k \in KeysOf(opts)}

\* C8: the query is the pairs of the present options, in insertion order
\* and within an option in wire-parameter order, joined by single "&" with
\* none leading, trailing or doubled; an absent option contributes no key.
C8_QueryIsPairsInInsertionOrder ==
  (Built /\ AllRecognised(options)) =>
    /\ result.ok
    /\ result.val = ExpectedQuery(options)
    /\ result.val # <<>> =>
         /\ result.val[1] # "&"
         /\ result.val[Len(result.val)] # "&"
         /\ \A i \in 1..(Len(result.val) - 1) :
              ~(result.val[i] = "&" /\ result.val[i + 1] = "&")
    /\ \A n \in 1..Len(Pieces(result.val)) :
         PairKey(Pieces(result.val)[n]) \in WireNamesOf(options)

\* two options of which the first yields no pair: the query is the second
\* option's pair alone
C8_Witness ==
  /\ Built
  /\ Len(options) = 2
  /\ options[1].key = "format"
  /\ EntryPairs(options[1]) = <<>>
  /\ options[2].key = "width"
  /\ result.val = <<"w", "=", "1", "2", "3">>

\* the option set without the entries whose name is not in the table
RECURSIVE Recognised(_)
Recognised(opts) ==
  IF Len(opts) = 0 THEN <<>>
  ELSE IF opts[1].key \in OptionNames
       THEN <<opts[1]>> \o Recognised(Tail(opts))
       ELSE Recognised(Tail(opts))

\* C9: an entry whose name is not in the Query Key Table produces no
\* output: the call returns the query of the option set without it.
C9_UnknownOptionIsIgnored ==
  (Built /\ ~AllRecognised(options)) =>
    /\ result.ok
    /\ result = getContentfulImageQuery(Recognised(options))

\* the object o restricted to the property p
Only(o, p) == [q \in (DOMAIN o) \cap {p} |-> o[q]]

\* C10: for an object source the URL is read from fields.file.url if the
\* object has fields, else from file.url if it has file, else from url; the
\* other properties have no influence on the result.
C10_ShapePrecedence ==
  (Resolved /\ src.type = "object") =>
    LET o == src.obj
        decisive == IF HasProp(o, "fields") THEN "fields"
                    ELSE IF HasProp(o, "file") THEN "file"
                    ELSE "url"
    IN  /\ result = getContentfulImageSrcUrl(ObjectSrc(Only(o, decisive)))
        /\ (decisive = "fields" /\ HasProp(o.fields, "file")
              /\ HasProp(o.fields.file, "url")) =>
             result = getContentfulImageSrcUrl(StringSrc(o.fields.file.url))
        /\ (decisive = "fields" /\ ~HasProp(o.fields, "file")) => ~result.ok
        /\ (decisive = "file" /\ HasProp(o.file, "url")) =>
             result = getContentfulImageSrcUrl(StringSrc(o.file.url))
        /\ (decisive = "url" /\ HasProp(o, "url")) =>
             result = getContentfulImageSrcUrl(StringSrc(o.url))

\* an object with fields, file and url carrying three different URLs
C10_Witness ==
  /\ Resolved
  /\ src.type = "object"
  /\ DOMAIN src.obj = {"fields", "file", "url"}
  /\ HasProp(src.obj.fields, "file")
  /\ HasProp(src.obj.fields.file, "url")
  /\ HasProp(src.obj.file, "url")
  /\ src.obj.fields.file.url # src.obj.file.url
  /\ src.obj.fields.file.url # src.obj.url
  /\ src.obj.file.url # src.obj.url
  /\ result = Returned(src.obj.fields.file.url)
  /\ result.val # <<>>

\* C11: the resolver's output is a normal form: it holds no "?" and does
\* not start with "//", so resolving it again returns it unchanged, also
\* where both the prepend and the strip apply.
C11_ResolveIsIdempotent ==
  (Resolved /\ result.ok) =>
    /\ ~Includes(result.val, "?")
    /\ ~StartsWith(result.val, <<"/", "/">>)
    /\ getContentfulImageSrcUrl(StringSrc(result.val)) = result

\* "//a?//b": "https:" is prepended and the query, which holds "//", is cut
C11_Witness ==
  /\ Resolved
  /\ src.type = "string"
  /\ src.str = <<"/", "/", "a", "?", "/", "/", "b">>
  /\ result.val = HttpsPrefix \o <<"/", "/", "a">>

====
